---- MODULE Spec2Model ----
(***************************************************************************)
(* actix-web-database-identity: the SQL identity policy (src/src/lib.rs)   *)
(* and the SQL actor that serves it (src/src/sql.rs).                      *)
(*                                                                         *)
(* A request is extracted (from_request / load), handled (remember,        *)
(* forget), and finalised (write / save / remove).  Store calls are        *)
(* messages to the SqlActor; the request is suspended while one is in      *)
(* flight, and other requests may run in between.                          *)
(*                                                                         *)
(* Strings are sequences of one-character strings.  Option<T> is a set     *)
(* with at most one element.                                               *)
(***************************************************************************)
EXTENDS Integers, Sequences, FiniteSets, TLC

\* ------------------------------------------------------------------ bounds
MaxHdrLen == 4      \* longest Authorization value of the parsing runs
MaxMint == 1        \* remember() calls over a whole concurrent run
MaxCalls == 2       \* remember/forget calls of one handler
MaxClock == 1       \* last value of the clock

\* -------------------------------------------------------- program constants
StatusOk == 200
StatusBadRequest == 400
StatusUnauthorized == 401
StatusInternalServerError == 500

Reqs == {1, 2}      \* request slots: at most two requests in flight

None == {}
Some(v) == {v}
Unwrap(o) == CHOOSE v \in o : TRUE

\* unwrap_or
UnwrapOr(o, d) == IF o = None THEN d ELSE Unwrap(o)

\* ------------------------------------------------------------- header text
\* "#" stands for a byte that is legal in a header value but is not visible
\* ASCII, so that HeaderValue::to_str fails on it.
OpaqueByte == "#"
Chars == {"a", " ", OpaqueByte}

RECURSIVE StringsUpTo(_)
StringsUpTo(n) ==
    IF n = 0 THEN {<<>>}
    ELSE LET shorter == StringsUpTo(n - 1)
         IN  shorter \cup {Append(s, c) : s \in {t \in shorter : Len(t) = n - 1}, c \in Chars}

\* HeaderValue::to_str
ToStr(h) == IF \E i \in 1..Len(h) : h[i] = OpaqueByte THEN None ELSE Some(h)

\* str::split(' '): the fields between single spaces, empty fields included
RECURSIVE Split(_)
Split(s) ==
    LET sp == {i \in 1..Len(s) : s[i] = " "}
    IN  IF sp = {} THEN <<s>>
        ELSE LET p == CHOOSE i \in sp : \A j \in sp : i <= j
             IN  <<SubSeq(s, 1, p - 1)>> \o Split(SubSeq(s, p + 1, Len(s)))

\* load that looks a token up only under the scheme it knows
LoadTokenSchemeChecked(auth_header) ==
    IF auth_header = None THEN None
    ELSE LET text == ToStr(Unwrap(auth_header))
         IN  IF text = None THEN None
             ELSE LET iter == Split(Unwrap(text))
                  IN  IF Len(iter) >= 2 /\ iter[1] = <<"a">> THEN Some(iter[2]) ELSE None

\* load with the first field taken for the token
LoadTokenFirstField(auth_header) ==
    IF auth_header = None THEN None
    ELSE LET text == ToStr(Unwrap(auth_header))
         IN  IF text = None THEN None ELSE Some(Split(Unwrap(text))[1])

\* The token SqlIdentityInner::load looks up for an Authorization header
\* (None: no lookup is made).
LoadToken(auth_header) ==
    IF auth_header = None THEN None
    ELSE LET text == ToStr(Unwrap(auth_header))
         IN  IF text = None THEN None
             ELSE LET iter == Split(Unwrap(text))
                      scheme == IF Len(iter) >= 1 THEN Some(iter[1]) ELSE None
                      token == IF Len(iter) >= 2 THEN Some(iter[2]) ELSE None
                  IN  IF scheme # None /\ token # None THEN token ELSE None

\* a parse that accepts every text
TokenParsesAlways(token) == TRUE

\* token.parse::<HeaderValue>(): every byte is >= 32 and not DEL, or is a tab
ControlByte == "^"
TokenParses(token) == \A i \in 1..Len(token) : token[i] # ControlByte

\* ------------------------------------------------------------------ tokens
\* The n-th token minted by remember (rand + base64): a fresh printable text.
GenToken(n) == [i \in 1..n |-> "b"]

Subjects == {"mike", "bob"}

\* ------------------------------------------------------------------- store
\* Rows of table identities; id is the primary key.
SeedRows ==
    { [id |-> 1, token |-> <<"a">>, userid |-> "mike", ip |-> Some("10.0.0.1"),
       useragent |-> Some("curl"), created |-> 0, modified |-> 0],
      [id |-> 2, token |-> <<"a", "a">>, userid |-> "bob", ip |-> None,
       useragent |-> None, created |-> 0, modified |-> 0] }

\* Nothing makes token unique (the key of the table is id): a row that shares
\* its token with the first seeded row.
DuplicateRow ==
    [id |-> 3, token |-> <<"a">>, userid |-> "bob", ip |-> None,
     useragent |-> None, created |-> 0, modified |-> 0]

RowIds == {row.id : row \in SeedRows}

\* Results of a store call: Ok(value), or Err(e).
Ok(v) == [ok |-> TRUE, val |-> Some(v), err |-> "none"]
Err(e) == [ok |-> FALSE, val |-> None, err |-> e]
\* p.get()? and the query's ? : errors a call may end with whatever the rows
StoreErrors == {"Connection", "Query"}

\* Handler<FindIdentity>: identities.filter(token.eq(msg.token)).first(conn)
FindIdentity(rows, msg) ==
    LET hit == {row \in rows : row.token = msg.token}
    IN  IF hit = {} THEN {Err("NotFound")} ELSE {Ok(row) : row \in hit}

\* a changeset with a token column, filled with the default of
\* UpdateIdentity::create: unwrap_or("")
ChangesetDefaultToken(row, msg) ==
    [row EXCEPT !.token = <<>>,
                !.ip = IF msg.ip = None THEN @ ELSE msg.ip,
                !.useragent = IF msg.useragent = None THEN @ ELSE msg.useragent,
                !.modified = msg.modified]

\* a changeset that counts the updates in modified
ChangesetCounting(row, msg) ==
    [row EXCEPT !.ip = IF msg.ip = None THEN @ ELSE msg.ip,
                !.useragent = IF msg.useragent = None THEN @ ELSE msg.useragent,
                !.modified = @ + 1]

\* AsChangeset of UpdateIdentity: a None field leaves its column alone
Changeset(row, msg) ==
    [row EXCEPT !.ip = IF msg.ip = None THEN @ ELSE msg.ip,
                !.useragent = IF msg.useragent = None THEN @ ELSE msg.useragent,
                !.modified = msg.modified]

\* an insert-or-update (the replace_into the handler has in comments): a row
\* that is gone comes back with the update
UpdateRowsUpsert(rows, msg) ==
    IF \E row \in rows : row.id = msg.id
    THEN {IF row.id = msg.id THEN Changeset(row, msg) ELSE row : row \in rows}
    ELSE rows \cup {Changeset(row, msg) : row \in {seed \in SeedRows : seed.id = msg.id}}

\* an update without its find(msg.id)
UpdateRowsAll(rows, msg) == {Changeset(row, msg) : row \in rows}

\* Handler<UpdateIdentity>: diesel::update(identities.find(msg.id)).set(&msg)
UpdateRows(rows, msg) ==
    {IF row.id = msg.id THEN Changeset(row, msg) ELSE row : row \in rows}

UpdateCount(rows, msg) == Cardinality({row \in rows : row.id = msg.id})

\* a delete without its filter
DeleteRowsAll(rows, msg) == {}

\* a delete whose filter matches no row
DeleteRowsUnmatched(rows, msg) == rows

\* Handler<DeleteIdentity>: diesel::delete(identities.filter(token.eq(msg.token)))
DeleteRows(rows, msg) == {row \in rows : row.token # msg.token}

DeleteCount(rows, msg) == Cardinality({row \in rows : row.token = msg.token})

\* ---------------------------------------------------------------- Identity
\* struct SqlIdentity.  id is the field UpdateIdentity::update reads
\* (sql.rs:222); an Identity built from a found row carries the row's id, the
\* empty Identity carries none.
EmptyIdentity(ua, now) ==
    [state |-> "Unchanged", identity |-> None, token |-> None, ip |-> None,
     user_agent |-> Some(ua), created |-> now, id |-> None]

\* from_request with the subject of the found row left out
FromRequestNoSubject(ident, ip, ua, now) ==
    IF ident # None
    THEN LET id == Unwrap(ident)
         IN  [state |-> "Changed", identity |-> None, token |-> Some(id.token),
              ip |-> Some(ip), user_agent |-> Some(ua), created |-> id.created,
              id |-> Some(id.id)]
    ELSE EmptyIdentity(ua, now)

\* The closure of SqlIdentityPolicy::from_request over load's result
FromRequest(ident, ip, ua, now) ==
    IF ident # None
    THEN LET id == Unwrap(ident)
             uip == IF id.ip # None /\ Unwrap(id.ip) = ip THEN Unwrap(id.ip) ELSE ip
         IN  [state |-> "Changed", identity |-> Some(id.userid), token |-> Some(id.token),
              ip |-> Some(uip), user_agent |-> Some(ua), created |-> id.created,
              id |-> Some(id.id)]
    ELSE EmptyIdentity(ua, now)

\* The and_then of load: a found row, or None for any error of the actor
LoadResult(res) == IF res.ok THEN res.val ELSE None

\* SqlIdentity::identity
CurrentSubject(self) == self.identity

\* a remember that sets the subject and the state only
RememberIdentityNoToken(self, value, token) ==
    [self EXCEPT !.identity = Some(value), !.state = "Changed"]

\* a remember that leaves the subject as it was
RememberIdentityKeepsSubject(self, value, token) ==
    [self EXCEPT !.token = Some(token), !.state = "Changed"]

\* SqlIdentity::remember, with the token it generates
RememberIdentity(self, value, token) ==
    [self EXCEPT !.identity = Some(value), !.token = Some(token), !.state = "Changed"]

\* a forget that takes the header name for the token
ForgetIdentityOtherToken(self) ==
    [self EXCEPT !.identity = None, !.token = Some(<<"x">>), !.state = "Deleted"]

\* a forget that leaves the state as it was
ForgetIdentityKeepsState(self) == [self EXCEPT !.identity = None]

\* a forget that drops the token as well
ForgetIdentityClearsToken(self) ==
    [self EXCEPT !.identity = None, !.token = None, !.state = "Deleted"]

\* SqlIdentity::forget
ForgetIdentity(self) == [self EXCEPT !.identity = None, !.state = "Deleted"]

\* write without its 400 arm: what is neither saved nor removed passes through
WriteBranchLenient(self) ==
    CASE self.state = "Changed" /\ self.token # None /\ self.identity # None -> "save"
      [] self.state = "Deleted" /\ self.token # None -> "remove"
      [] OTHER -> "done"

\* write with its 400 arm as the catch-all
WriteBranchStrict(self) ==
    CASE self.state = "Changed" /\ self.token # None /\ self.identity # None -> "save"
      [] self.state = "Deleted" /\ self.token # None -> "remove"
      [] OTHER -> "bad_request"

\* The branch SqlIdentity::write takes
WriteBranch(self) ==
    CASE self.state = "Changed" /\ self.token # None /\ self.identity # None -> "save"
      [] self.state = "Deleted" /\ self.token # None -> "remove"
      [] self.state \in {"Deleted", "Changed"} -> "bad_request"
      [] OTHER -> "done"

\* ---------------------------------------------------------------- messages
FindMsg(token) == [op |-> "find", token |-> token]

\* a DeleteIdentity that carries the header name in place of the token
DeleteMsgOtherText(token) == [op |-> "delete", token |-> <<"x">>]

DeleteMsg(token) == [op |-> "delete", token |-> token]

\* UpdateIdentity::update.  The empty Identity has no row id: any id may be
\* sent for it, one that matches no row included.
UpdateMsgs(ident, now) ==
    {[op |-> "update", id |-> i, ip |-> ident.ip, useragent |-> ident.user_agent,
      modified |-> now] :
        i \in IF ident.id # None THEN ident.id ELSE RowIds \cup {0}}

\* --------------------------------------------------------------- responses
Response(status, auth) == [kind |-> "response", status |-> status, auth |-> auth]
ErrorResponse(status) == [kind |-> "error", status |-> status, auth |-> <<>>]

\* save without the append
AppendHeaderSkipped(resp, token) == resp

\* headers.append(self.hdr, token)
AppendHeader(resp, token) == [resp EXCEPT !.auth = Append(@, token)]

\* an and_then that takes a call that changed no row for a failure
StoreOutcomeRequiresRow(res, resp) ==
    IF res.ok /\ res.val # Some(0) THEN resp ELSE ErrorResponse(StatusInternalServerError)

\* an and_then that returns the response whatever the result
StoreOutcomeIgnoresError(res, resp) == resp

\* The and_then of save and of remove: the response, or a 500 for any failure
StoreOutcome(res, resp) ==
    IF res.ok THEN resp ELSE ErrorResponse(StatusInternalServerError)

\* The future of from_request when load ends in res: an Identity, or the
\* MailboxError that map_err passes on
ExtractFails(res) == res.err = "Mailbox"

\* ----------------------------------------------------------------- clients
Clients ==
    { [remote |-> Some("10.0.0.1"), agent |-> Some("curl")],
      [remote |-> None, agent |-> None] }

\* Tokens a client may hold: those of the seeded rows and the first one minted
ClientTokens == {row.token : row \in SeedRows} \cup {GenToken(1)}
Bearer(token) == <<"a", " ">> \o token

\* What the clients of a run send and what its handlers do.
\* Concurrent runs: one request per slot, any overlap, well-formed headers.
Concurrent ==
    [slots |-> Reqs, requests |-> Cardinality(Reqs),
     headers |-> {None} \cup {Some(Bearer(t)) : t \in ClientTokens},
     clients |-> {c \in Clients : c.remote # None},
     statuses |-> {StatusOk},
     subjects |-> {"bob"},
     mints |-> MaxMint,
     rows |-> SeedRows]
\* Single runs: one request, every header text up to MaxHdrLen, every client,
\* status and subject, every handler call may be a remember, and a store with
\* two rows of one token.
Single ==
    [slots |-> {1}, requests |-> Cardinality({1}),
     headers |-> {None} \cup {Some(h) : h \in StringsUpTo(MaxHdrLen)},
     clients |-> Clients,
     statuses |-> {StatusOk, StatusUnauthorized},
     subjects |-> Subjects,
     mints |-> MaxCalls,
     rows |-> SeedRows \cup {DuplicateRow}]

\* Method runs: the first request starts in its handler with any SqlIdentity
\* value; one more request follows it.
Methods ==
    [slots |-> {1}, requests |-> Cardinality({1}),
     headers |-> {None} \cup {Some(Bearer(t)) : t \in ClientTokens},
     clients |-> {c \in Clients : c.remote # None},
     statuses |-> {StatusOk},
     subjects |-> {"bob"},
     mints |-> MaxCalls,
     rows |-> SeedRows]

\* The clients, handlers and rows of a run of kind m
EnvOf(m) ==
    CASE m = "concurrent" -> Concurrent
      [] m = "single" -> Single
      [] OTHER -> Methods

\* Values of struct SqlIdentity: every state, with and without subject, with
\* no token, a token that is a legal header value and one that is not
SqlIdentity ==
    [state : {"Changed", "Deleted", "Unchanged"},
     identity : {None, Some("mike")},
     token : {None, Some(<<"a">>), Some(<<ControlByte>>)},
     ip : {Some("10.0.0.1")}, user_agent : {Some("curl")}, created : {0},
     id : {None, Some(1)}]

\* ------------------------------------------------------------------- state
VARIABLES
    store,      \* rows of table identities
    req,        \* per request slot: position, Identity, message in flight, ...
    clock,      \* Utc::now()
    minted,     \* tokens generated so far
    served,     \* requests received so far
    mode,       \* the kind of run: "concurrent", "single" or "methods"
    issued,     \* history: <<token, subject>> returned by a remember + write
    forgotten,  \* history: tokens a write has sent a delete for
    revoked,    \* history: valid tokens presented by requests that ended in a
                \* successful forget + write
    deleted     \* history: those of them the delete was sent for

vars == <<store, req, clock, minted, served, mode, issued, forgotten, revoked, deleted>>

Idle ==
    [pc |-> "idle", ip |-> "", ua |-> "", msg |-> None, res |-> None,
     ident |-> None, fut |-> None, out |-> None,
     \* history of the request: the shape of its Authorization header and the
     \* token load took from it, handler calls made, store calls sent, the rows
     \* matching the token when find ran, the row find returned, the Identity and
     \* the response write was called with, what was known of the token on arrival
     shape |-> "absent", presented |-> None,
     calls |-> 0, remembered |-> FALSE, ops |-> <<>>, matched |-> None, loaded |-> None,
     wr |-> None, resp |-> None,
     known |-> None, revokedBefore |-> FALSE, deletedBefore |-> FALSE,
     \* the Identity at handler entry, the last handler call and the Identity
     \* it was made on, the <<token, subject>> of each remember in order, the
     \* tokens of the rows this request's store calls changed or removed
     entry |-> None, last |-> "none", before |-> None, gen |-> <<>>, touched |-> {},
     \* the rows of the token when this request's delete ran
     target |-> None,
     \* the Authorization header of the request
     hdr |-> None]

InitWith(m) ==
    /\ store = EnvOf(m).rows
    /\ req = [r \in Reqs |-> Idle]
    /\ clock = 0
    /\ minted = 0
    /\ served = 0
    /\ mode = m
    /\ issued = {}
    /\ forgotten = {}
    /\ revoked = {}
    /\ deleted = {}

Init == InitWith("concurrent")

InitOne == InitWith("single")

\* The methods of SqlIdentity called on any value of the struct
InitIdentity ==
    /\ store = EnvOf("methods").rows
    /\ \E self \in SqlIdentity :
          req = [r \in Reqs |->
                    IF r = 1
                    THEN [Idle EXCEPT !.pc = "handler", !.ip = "10.0.0.1", !.ua = "curl",
                                      !.ident = Some(self), !.entry = Some(self)]
                    ELSE Idle]
    /\ clock = 0
    /\ minted = 0
    /\ served = 0
    /\ mode = "methods"
    /\ issued = {}
    /\ forgotten = {}
    /\ revoked = {}
    /\ deleted = {}

\* The clients and handlers of this run
env == EnvOf(mode)

\* Utc::now(): each reading is no earlier than the one before
Later(now) == IF now < MaxClock THEN now + 1 ELSE now

\* The token a request presented (None: none was looked up)
Presented(r) == req[r].presented

\* The shape of an Authorization header, read off its text
HeaderShape(hdr) ==
    IF hdr = None THEN "absent"
    ELSE LET h == Unwrap(hdr)
         IN  CASE \E i \in 1..Len(h) : h[i] = OpaqueByte -> "not_text"
               [] \A i \in 1..Len(h) : h[i] # " " -> "one_field"
               [] OTHER -> "fields"

\* a from_request that sends FindIdentity and hands the empty Identity to the
\* handler without waiting for the answer
ExtractEager(r, auth_header, client) ==
    /\ r \in env.slots
    /\ req[r].pc = "idle"
    /\ served < env.requests
    /\ served' = served + 1
    /\ LET ip == UnwrapOr(client.remote, "0.0.0.0")
           ua == UnwrapOr(client.agent, "Unknown")
           token == LoadToken(auth_header)
       IN  req' = [req EXCEPT ![r] =
               [Idle EXCEPT !.pc = "handler", !.ip = ip, !.ua = ua,
                            !.shape = HeaderShape(auth_header), !.presented = token,
                            !.hdr = auth_header,
                            !.msg = {FindMsg(t) : t \in token},
                            !.ops = IF token = None THEN <<>> ELSE <<"find">>,
                            !.ident = Some(FromRequest(None, ip, ua, clock)),
                            !.entry = Some(FromRequest(None, ip, ua, clock))]]
    /\ clock' = Later(clock)
    /\ UNCHANGED <<store, minted, mode, issued, forgotten, revoked, deleted>>

\* from_request up to the first suspension: load either answers None at once
\* or sends FindIdentity.
Extract(r, auth_header, client) ==
    /\ r \in env.slots
    /\ req[r].pc = "idle"
    /\ served < env.requests
    /\ served' = served + 1
    /\ LET ip == UnwrapOr(client.remote, "0.0.0.0")
           ua == UnwrapOr(client.agent, "Unknown")
           token == LoadToken(auth_header)
           base == [Idle EXCEPT !.ip = ip, !.ua = ua, !.shape = HeaderShape(auth_header),
                                !.presented = token, !.hdr = auth_header]
       IN  IF token = None
           THEN /\ req' = [req EXCEPT ![r] =
                    [base EXCEPT !.pc = "handler",
                                 !.ident = Some(FromRequest(None, ip, ua, clock)),
                                 !.entry = Some(FromRequest(None, ip, ua, clock))]]
                /\ clock' = Later(clock)
           ELSE /\ clock' = clock
                /\ req' = [req EXCEPT ![r] =
                    [base EXCEPT !.pc = "find_sent",
                                 !.msg = Some(FindMsg(Unwrap(token))),
                                 !.ops = <<"find">>,
                                 !.known = {p[2] : p \in {q \in issued :
                                     q[1] = Unwrap(token) /\ q[1] \notin forgotten}},
                                 !.revokedBefore = Unwrap(token) \in revoked,
                                 !.deletedBefore = Unwrap(token) \in deleted]]
    /\ UNCHANGED <<store, minted, mode, issued, forgotten, revoked, deleted>>

\* a find the actor serves only while no other request waits for the store
HandleFindExclusive(r) ==
    /\ req[r].pc = "find_sent"
    /\ \A q \in Reqs \ {r} : req[q].msg = None
    /\ \E res \in FindIdentity(store, Unwrap(req[r].msg)) \cup {Err(e) : e \in StoreErrors} :
          req' = [req EXCEPT ![r].pc = "find_done", ![r].msg = None, ![r].res = Some(res),
                             ![r].loaded = res.val,
                             ![r].matched = {row \in store : row.token = Unwrap(req[r].msg).token}]
    /\ UNCHANGED <<store, clock, minted, served, mode, issued, forgotten, revoked, deleted>>

\* Handler<FindIdentity> for SqlActor
HandleFind(r) ==
    /\ req[r].pc = "find_sent"
    /\ \E res \in FindIdentity(store, Unwrap(req[r].msg)) \cup {Err(e) : e \in StoreErrors} :
          req' = [req EXCEPT ![r].pc = "find_done", ![r].msg = None, ![r].res = Some(res),
                             ![r].loaded = res.val,
                             ![r].matched = {row \in store : row.token = Unwrap(req[r].msg).token}]
    /\ UNCHANGED <<store, clock, minted, served, mode, issued, forgotten, revoked, deleted>>

\* addr.send(..) ends in a MailboxError: the message never reaches the actor
Undelivered(r) ==
    /\ req[r].pc \in {"find_sent", "update_sent", "delete_sent"}
    /\ req' = [req EXCEPT ![r].pc = CASE req[r].pc = "find_sent" -> "find_done"
                                      [] req[r].pc = "update_sent" -> "update_done"
                                      [] OTHER -> "delete_done",
                          ![r].msg = None, ![r].res = Some(Err("Mailbox"))]
    /\ UNCHANGED <<store, clock, minted, served, mode, issued, forgotten, revoked, deleted>>

\* The rest of from_request once load's future has ended
LoadDone(r) ==
    /\ req[r].pc = "find_done"
    /\ LET res == Unwrap(req[r].res)
       IN  IF ExtractFails(res)
           THEN req' = [req EXCEPT ![r].pc = "done",
                                   ![r].out = Some(ErrorResponse(StatusInternalServerError))]
           ELSE req' = [req EXCEPT ![r].pc = "handler",
                                   ![r].ident = Some(FromRequest(LoadResult(res), req[r].ip,
                                                                 req[r].ua, clock)),
                                   ![r].entry = Some(FromRequest(LoadResult(res), req[r].ip,
                                                                 req[r].ua, clock))]
    /\ clock' = IF ExtractFails(Unwrap(req[r].res)) \/ LoadResult(Unwrap(req[r].res)) # None
                THEN clock ELSE Later(clock)
    /\ UNCHANGED <<store, minted, served, mode, issued, forgotten, revoked, deleted>>

\* The handler calls req.remember(value)
Remember(r, value) ==
    /\ req[r].pc = "handler"
    /\ req[r].calls < MaxCalls
    /\ minted < env.mints
    /\ minted' = minted + 1
    /\ req' = [req EXCEPT ![r].ident = Some(RememberIdentity(Unwrap(@), value, GenToken(minted + 1))),
                          ![r].calls = @ + 1, ![r].remembered = TRUE,
                          ![r].last = "remember", ![r].before = req[r].ident,
                          ![r].gen = Append(@, <<GenToken(minted + 1), value>>)]
    /\ UNCHANGED <<store, clock, served, mode, issued, forgotten, revoked, deleted>>

\* The handler calls req.forget()
Forget(r) ==
    /\ req[r].pc = "handler"
    /\ req[r].calls < MaxCalls
    /\ req' = [req EXCEPT ![r].ident = Some(ForgetIdentity(Unwrap(@))), ![r].calls = @ + 1,
                          ![r].last = "forget", ![r].before = req[r].ident]
    /\ UNCHANGED <<store, clock, minted, served, mode, issued, forgotten, revoked, deleted>>

\* The handler returns a response with the given status and the middleware
\* calls SqlIdentity::write on it (save and remove up to their send included).
Write(r, status) ==
    /\ req[r].pc = "handler"
    /\ LET self == Unwrap(req[r].ident)
           resp == Response(status, <<>>)
           branch == WriteBranch(self)
           reset == [self EXCEPT !.state = "Unchanged"]
           base == [req[r] EXCEPT !.wr = Some(self), !.resp = Some(resp)]
       IN  CASE branch = "save" ->
                  IF TokenParses(Unwrap(self.token))
                  THEN /\ \E msg \in UpdateMsgs(reset, clock) :
                            req' = [req EXCEPT ![r] =
                                [base EXCEPT !.pc = "update_sent", !.ident = Some(reset),
                                     !.fut = Some(AppendHeader(resp, Unwrap(self.token))),
                                     !.msg = Some(msg), !.ops = Append(@, "update")]]
                       /\ forgotten' = forgotten
                       /\ clock' = Later(clock)
                  ELSE /\ req' = [req EXCEPT ![r] =
                                [base EXCEPT !.pc = "done", !.ident = Some(reset),
                                     !.out = Some(ErrorResponse(StatusInternalServerError))]]
                       /\ forgotten' = forgotten
                       /\ clock' = clock
             [] branch = "remove" ->
                  /\ req' = [req EXCEPT ![r] =
                        [base EXCEPT !.pc = "delete_sent", !.ident = Some(reset),
                             !.fut = Some(resp),
                             !.msg = Some(DeleteMsg(Unwrap(self.token))),
                             !.ops = Append(@, "delete")]]
                  /\ forgotten' = forgotten \cup self.token
                  /\ clock' = clock
             [] branch = "bad_request" ->
                  /\ req' = [req EXCEPT ![r] =
                        [base EXCEPT !.pc = "done",
                             !.out = Some(ErrorResponse(StatusBadRequest))]]
                  /\ forgotten' = forgotten
                  /\ clock' = clock
             [] OTHER ->
                  /\ req' = [req EXCEPT ![r] =
                        [base EXCEPT !.pc = "done", !.ident = Some(reset),
                             !.out = Some(resp)]]
                  /\ forgotten' = forgotten
                  /\ clock' = clock
    /\ UNCHANGED <<store, minted, served, mode, issued, revoked, deleted>>

\* Handler<UpdateIdentity> for SqlActor
HandleUpdate(r) ==
    /\ req[r].pc = "update_sent"
    /\ LET msg == Unwrap(req[r].msg)
       IN  \/ /\ store' = UpdateRows(store, msg)
              /\ req' = [req EXCEPT ![r].pc = "update_done", ![r].msg = None,
                                    ![r].res = Some(Ok(UpdateCount(store, msg))),
                                    ![r].touched = @ \cup {row.token : row \in
                                                      store \ UpdateRows(store, msg)}]
           \/ /\ store' = store
              /\ \E e \in StoreErrors :
                    req' = [req EXCEPT ![r].pc = "update_done", ![r].msg = None,
                                       ![r].res = Some(Err(e))]
    /\ UNCHANGED <<clock, minted, served, mode, issued, forgotten, revoked, deleted>>

\* Handler<DeleteIdentity> for SqlActor
HandleDelete(r) ==
    /\ req[r].pc = "delete_sent"
    /\ LET msg == Unwrap(req[r].msg)
       IN  \/ /\ store' = DeleteRows(store, msg)
              /\ req' = [req EXCEPT ![r].pc = "delete_done", ![r].msg = None,
                                    ![r].res = Some(Ok(DeleteCount(store, msg))),
                                    ![r].touched = @ \cup {row.token : row \in
                                                      store \ DeleteRows(store, msg)},
                                    ![r].target = Some({row \in store : row.token = msg.token})]
           \/ /\ store' = store
              /\ \E e \in StoreErrors :
                    req' = [req EXCEPT ![r].pc = "delete_done", ![r].msg = None,
                                       ![r].res = Some(Err(e))]
    /\ UNCHANGED <<clock, minted, served, mode, issued, forgotten, revoked, deleted>>

\* a save whose future hands the request back to its handler
SaveDoneResumes(r) ==
    /\ req[r].pc = "update_done"
    /\ req' = [req EXCEPT ![r].pc = "handler"]
    /\ UNCHANGED <<store, clock, minted, served, mode, issued, forgotten, revoked, deleted>>

\* The future of SqlIdentityInner::save ends
SaveDone(r) ==
    /\ req[r].pc = "update_done"
    /\ LET res == Unwrap(req[r].res)
           self == Unwrap(req[r].ident)
       IN  /\ req' = [req EXCEPT ![r].pc = "done",
                                 ![r].out = Some(StoreOutcome(res, Unwrap(req[r].fut)))]
           /\ issued' = IF res.ok /\ req[r].remembered
                        THEN issued \cup {<<Unwrap(self.token), Unwrap(self.identity)>>}
                        ELSE issued
    /\ UNCHANGED <<store, clock, minted, served, mode, forgotten, revoked, deleted>>

\* The future of SqlIdentityInner::remove ends
RemoveDone(r) ==
    /\ req[r].pc = "delete_done"
    /\ LET res == Unwrap(req[r].res)
       IN  /\ req' = [req EXCEPT ![r].pc = "done",
                                 ![r].out = Some(StoreOutcome(res, Unwrap(req[r].fut)))]
           /\ revoked' = IF res.ok /\ req[r].loaded # None
                         THEN revoked \cup Presented(r)
                         ELSE revoked
           /\ deleted' = IF res.ok /\ req[r].loaded # None
                            /\ Unwrap(req[r].wr).token = Presented(r)
                         THEN deleted \cup Presented(r)
                         ELSE deleted
    /\ UNCHANGED <<store, clock, minted, served, mode, issued, forgotten>>

\* The outcome is sent; the slot is free for the next request
Finish(r) ==
    /\ req[r].pc = "done"
    /\ req' = [req EXCEPT ![r] = Idle]
    /\ UNCHANGED <<store, clock, minted, served, mode, issued, forgotten, revoked, deleted>>

Next ==
    \/ \E r \in Reqs, h \in env.headers, c \in env.clients : Extract(r, h, c)
    \/ \E r \in Reqs : HandleFind(r)
    \/ \E r \in Reqs : Undelivered(r)
    \/ \E r \in Reqs : LoadDone(r)
    \/ \E r \in Reqs, value \in env.subjects : Remember(r, value)
    \/ \E r \in Reqs : Forget(r)
    \/ \E r \in Reqs, status \in env.statuses : Write(r, status)
    \/ \E r \in Reqs : HandleUpdate(r)
    \/ \E r \in Reqs : HandleDelete(r)
    \/ \E r \in Reqs : SaveDone(r)
    \/ \E r \in Reqs : RemoveDone(r)
    \/ \E r \in Reqs : Finish(r)

Spec == Init /\ [][Next]_vars

SpecOne == InitOne /\ [][Next]_vars

SpecIdentity == InitIdentity /\ [][Next]_vars

\* A message sent to the SqlActor is answered: a thread of the SyncArbiter
\* handles it, or the send ends in a MailboxError
Answer(r) == HandleFind(r) \/ HandleUpdate(r) \/ HandleDelete(r) \/ Undelivered(r)

\* The future that waits for the answer is polled again
Resume(r) == LoadDone(r) \/ SaveDone(r) \/ RemoveDone(r)

\* The actor's threads and the futures' executor are fair to every request.
SpecFair ==
    /\ Init /\ [][Next]_vars
    /\ \A r \in Reqs : WF_vars(Answer(r)) /\ WF_vars(Resume(r))

\* ================================================================== claims
Self(r) == Unwrap(req[r].ident)

\* The handler of r is about to run and has called nothing yet
AtEntry(r) == req[r].pc = "handler" /\ req[r].calls = 0

\* The anonymous Identity
IsEmpty(self) == self.state = "Unchanged" /\ self.token = None /\ self.identity = None

\* write of r has been called and its outcome is known
Written(r) == req[r].pc = "done" /\ req[r].wr # None

\* write of r sent an update or a delete
Mutations(r) == {i \in 1..Len(req[r].ops) : req[r].ops[i] \in {"update", "delete"}}

\* The store call write of r sent, if any
WriteOp(r) == {req[r].ops[i] : i \in Mutations(r)}

\* C1: a token returned by remember(s) + successful write, presented by a
\* later request with no forget + write for it in between, resolves to s
\* (when the store answers the find).
RoundTrip ==
    \A r \in Reqs :
        AtEntry(r) /\ (\A res \in req[r].res : res.err \notin StoreErrors) =>
            \A s \in req[r].known :
                Presented(r) \cap forgotten = {} => CurrentSubject(Self(r)) = Some(s)

\* C2 as stated: once a request that presented a valid token t has ended in
\* forget() and a successful write, find(t) is NotFound and requests that
\* present t are anonymous.
Revocation ==
    /\ \A t \in revoked : FindIdentity(store, FindMsg(t)) = {Err("NotFound")}
    /\ \A r \in Reqs : AtEntry(r) /\ req[r].revokedBefore => IsEmpty(Self(r))

\* C2 amended: the same, when forget() was called on an Identity that still
\* held t (no remember() before it in that request).
RevocationOfHeldToken ==
    /\ \A t \in deleted : FindIdentity(store, FindMsg(t)) = {Err("NotFound")}
    /\ \A r \in Reqs : AtEntry(r) /\ req[r].deletedBefore => IsEmpty(Self(r))

RevocationWitness ==
    \E r \in Reqs : AtEntry(r) /\ req[r].deletedBefore /\ Presented(r) \subseteq deleted

\* C3: at handler entry the subject is present exactly when find returned a
\* row for the presented token, and then it is that row's userid; no token or
\* an unknown token gives no subject.
SubjectAtEntry ==
    \A r \in Reqs :
        AtEntry(r) =>
            /\ CurrentSubject(Self(r)) # None <=> req[r].loaded # None
            /\ \A row \in req[r].loaded :
                  /\ CurrentSubject(Self(r)) = Some(row.userid)
                  /\ Presented(r) = Some(row.token)
                  /\ row \in req[r].matched
            /\ Presented(r) = None \/ req[r].matched = {} => CurrentSubject(Self(r)) = None

SubjectAtEntryWitness ==
    /\ \E r \in Reqs : AtEntry(r) /\ req[r].loaded # None
    /\ \E r \in Reqs : AtEntry(r) /\ Presented(r) # None /\ req[r].matched = {}

\* C4: write after forget() on an Identity without a token is a 400 and
\* sends nothing to the store.
ForgetWithoutToken ==
    \A r \in Reqs :
        /\ req[r].wr # None
        /\ Unwrap(req[r].wr).state = "Deleted"
        /\ Unwrap(req[r].wr).token = None
        => /\ req[r].pc = "done"
           /\ req[r].out = Some(ErrorResponse(StatusBadRequest))
           /\ Mutations(r) = {}

ForgetWithoutTokenWitness ==
    \E r \in Reqs :
        /\ Written(r)
        /\ Unwrap(req[r].wr).state = "Deleted"
        /\ Unwrap(req[r].wr).token = None

\* C5: write in state Unchanged returns the handler's response as it is and
\* sends nothing to the store.
UnchangedWrite ==
    \A r \in Reqs :
        req[r].wr # None /\ Unwrap(req[r].wr).state = "Unchanged" =>
            /\ req[r].pc = "done"
            /\ req[r].out = req[r].resp
            /\ Mutations(r) = {}

UnchangedWriteWitness ==
    \E r \in Reqs :
        /\ Written(r)
        /\ Unwrap(req[r].wr).state = "Unchanged"
        /\ \E resp \in req[r].resp : resp.status = StatusUnauthorized

\* C6: write in state Changed with token and subject, store call successful:
\* the handler's response plus the response header, whose value is the
\* Identity's token.
SaveOutcome ==
    \A r \in Reqs :
        /\ Written(r)
        /\ WriteBranch(Unwrap(req[r].wr)) = "save"
        /\ WriteOp(r) = {"update"}
        /\ \E res \in req[r].res : res.ok
        => \E out \in req[r].out :
              /\ out.kind = "response"
              /\ out.status = Unwrap(req[r].resp).status
              /\ out.auth = Unwrap(req[r].resp).auth \o <<Unwrap(Self(r).token)>>
              /\ Self(r).token = Unwrap(req[r].wr).token

SaveOutcomeWitness ==
    \E r \in Reqs :
        /\ Written(r)
        /\ WriteBranch(Unwrap(req[r].wr)) = "save"
        /\ req[r].remembered
        /\ WriteOp(r) = {"update"}
        /\ \E res \in req[r].res : res.ok

\* C7: the response header is present only on the response of a request
\* whose handler called remember and whose write succeeded.
HeaderOnlyAfterRemember ==
    \A r \in Reqs :
        \A out \in req[r].out :
            out.auth # <<>> => req[r].remembered /\ out.kind = "response"

\* C8: a failed update or delete gives a 500 in place of the handler's
\* response.
StoreFailure ==
    \A r \in Reqs :
        /\ req[r].pc = "done"
        /\ Mutations(r) # {}
        /\ \E res \in req[r].res : ~res.ok
        => req[r].out = Some(ErrorResponse(StatusInternalServerError))

StoreFailureWitness ==
    \E r \in Reqs :
        /\ req[r].pc = "done"
        /\ WriteOp(r) = {"delete"}
        /\ \E res \in req[r].res : res.err = "Mailbox"
        /\ \E resp \in req[r].resp : resp.status = StatusUnauthorized

\* C9: whatever the find call ends in, extraction yields an Identity, the
\* anonymous one unless a row was found.
ExtractionNeverFails ==
    \A r \in Reqs :
        /\ req[r].pc \notin {"idle", "find_sent", "find_done"} => req[r].ident # None
        /\ AtEntry(r) /\ req[r].loaded = None => IsEmpty(Self(r))

\* C10: no Authorization header, one that is not text, or one without a
\* second field: the anonymous Identity, and no find.
MalformedHeader ==
    \A r \in Reqs :
        req[r].pc # "idle" /\ req[r].shape \in {"absent", "not_text", "one_field"} =>
            /\ req[r].pc \notin {"find_sent", "find_done"}
            /\ \A i \in 1..Len(req[r].ops) : req[r].ops[i] # "find"
            /\ AtEntry(r) => IsEmpty(Self(r))

MalformedHeaderWitness ==
    \E r \in Reqs : AtEntry(r) /\ req[r].shape = "one_field"

\* A text that is not a legal header value
Unencodable(token) == \E i \in 1..Len(token) : token[i] = ControlByte

\* C11: write in state Changed (with its subject) on a token that is not a
\* legal header value: a 500, nothing is sent to the store and no row changes.
HeaderEncodingFailure ==
    \A r \in Reqs :
        /\ req[r].wr # None
        /\ Unwrap(req[r].wr).state = "Changed"
        /\ Unwrap(req[r].wr).identity # None
        /\ \E token \in Unwrap(req[r].wr).token : Unencodable(token)
        => /\ req[r].pc = "done"
           /\ req[r].out = Some(ErrorResponse(StatusInternalServerError))
           /\ Mutations(r) = {}
           /\ req[r].touched = {}
           /\ store = EnvOf(mode).rows

HeaderEncodingFailureWitness ==
    \E r \in Reqs :
        /\ Written(r)
        /\ Unwrap(req[r].wr).state = "Changed"
        /\ Unwrap(req[r].wr).identity # None
        /\ \E token \in Unwrap(req[r].wr).token : Unencodable(token)
        /\ req[r].out = Some(ErrorResponse(StatusInternalServerError))

\* The handler of r called remember at least twice and nothing else, and its
\* write ended in a successful update
RememberedTwice(r) ==
    /\ Written(r)
    /\ Len(req[r].gen) >= 2
    /\ req[r].calls = Len(req[r].gen)
    /\ WriteOp(r) = {"update"}
    /\ \E res \in req[r].res : res.ok

\* Each remember replaces token and subject; the response of the write
\* carries the last token only, and no row holds an earlier one.
LastCallReturned ==
    \A r \in Reqs :
        RememberedTwice(r) =>
            LET gen == req[r].gen
                last == gen[Len(gen)]
            IN  /\ Unwrap(req[r].wr).token = Some(last[1])
                /\ Unwrap(req[r].wr).identity = Some(last[2])
                /\ \E out \in req[r].out : out.auth = <<last[1]>>
                /\ \A i \in 1..(Len(gen) - 1) : \A row \in store : row.token # gen[i][1]

\* The write stores the token and the subject of the last remember.
LastCallPersisted ==
    \A r \in Reqs :
        RememberedTwice(r) =>
            LET last == req[r].gen[Len(req[r].gen)]
            IN  \E row \in store : row.token = last[1] /\ row.userid = last[2]

\* C12: after several remember calls the one write persists and returns the
\* token and subject of the last call only; an earlier token is neither
\* stored nor returned.
LastCallWins == LastCallReturned /\ LastCallPersisted

\* C13: once forget() has returned (and until write runs) the Identity is in
\* state Deleted without a subject, and with the token, ip, user agent and
\* created it had.
ForgetFrame ==
    \A r \in Reqs :
        req[r].pc = "handler" /\ req[r].last = "forget" =>
            \A self \in req[r].ident : \A old \in req[r].before :
                /\ self.state = "Deleted"
                /\ CurrentSubject(self) = None
                /\ self.token = old.token
                /\ self.ip = old.ip
                /\ self.user_agent = old.user_agent
                /\ self.created = old.created

ForgetFrameWitness ==
    \E r \in Reqs :
        /\ req[r].pc = "handler"
        /\ req[r].last = "forget"
        /\ \E old \in req[r].before :
              old.state = "Changed" /\ old.identity # None /\ old.token # None

\* C14 as stated: current_subject() is the subject resolved at extraction
\* for the whole request, whatever the handler has called.
SubjectFixed ==
    \A r \in Reqs :
        \A self \in req[r].ident : \A first \in req[r].entry :
            CurrentSubject(self) = CurrentSubject(first)

\* C14 amended: current_subject() is the subject resolved at extraction
\* until the handler calls remember or forget; after remember(v) it is v,
\* after forget() it is none.
SubjectFollowsCalls ==
    \A r \in Reqs :
        \A self \in req[r].ident : \A first \in req[r].entry :
            CurrentSubject(self) =
                CASE req[r].last = "remember" -> Some(req[r].gen[Len(req[r].gen)][2])
                  [] req[r].last = "forget" -> None
                  [] OTHER -> CurrentSubject(first)

SubjectFollowsCallsWitness ==
    /\ \E r \in Reqs :
          /\ req[r].pc = "handler" /\ req[r].last = "remember"
          /\ \E first \in req[r].entry :
                /\ CurrentSubject(first) # None
                /\ CurrentSubject(first) # CurrentSubject(Self(r))
    /\ \E r \in Reqs :
          /\ req[r].pc = "handler" /\ req[r].last = "none"
          /\ CurrentSubject(Self(r)) # None

\* C15: once write has run, through whichever branch, the Identity is in
\* state Unchanged and a second write would pass its response through.
WriteResets ==
    \A r \in Reqs :
        req[r].wr # None =>
            /\ Self(r).state = "Unchanged"
            /\ WriteBranch(Self(r)) = "done"

\* C16: find returns a row only when exactly one row has the token; with no
\* row or several rows of that token the request is anonymous.
FindUnique ==
    \A r \in Reqs :
        /\ req[r].loaded # None => Cardinality(req[r].matched) = 1
        /\ AtEntry(r) /\ Presented(r) # None /\ Cardinality(req[r].matched) # 1
               => IsEmpty(Self(r))

\* C17: a delete for a token without a row answers Ok(0) and changes no
\* row, and the write that sent it returns the response of the handler.
DeleteMissing ==
    \A r \in Reqs :
        req[r].target = Some({}) =>
            /\ WriteOp(r) = {"delete"}
            /\ req[r].res = Some(Ok(0))
            /\ req[r].touched = {}
            /\ req[r].pc = "done" => req[r].out = req[r].resp

\* the second of two logouts that both loaded the token
DeleteMissingWitness ==
    \E r \in Reqs :
        /\ req[r].pc = "done"
        /\ req[r].target = Some({})
        /\ req[r].loaded # None
        /\ \E row \in req[r].loaded : Some(row.token) = Unwrap(req[r].wr).token
        /\ req[r].out = req[r].resp

\* C18: an UpdateIdentity applied twice in a row leaves the rows, and answers
\* the count, of one application, also when no row has its id.
UpdateIdempotent ==
    \A r \in Reqs :
        req[r].pc = "update_sent" =>
            \A msg \in req[r].msg :
                LET once == UpdateRows(store, msg)
                IN  /\ UpdateRows(once, msg) = once
                    /\ UpdateCount(once, msg) = UpdateCount(store, msg)

UpdateIdempotentWitness ==
    /\ \E r \in Reqs :
          /\ req[r].pc = "update_sent"
          /\ \E msg \in req[r].msg :
                UpdateCount(store, msg) = 0 /\ UpdateRows(store, msg) = store
    /\ \E r \in Reqs :
          /\ req[r].pc = "update_sent"
          /\ \E msg \in req[r].msg :
                UpdateCount(store, msg) = 1 /\ UpdateRows(store, msg) # store

\* The subject the seeded rows give a token
SubjectOf(token) == (CHOOSE row \in SeedRows : row.token = token).userid

\* r presented a token that had a row when its find ran
PresentedValid(r) == req[r].pc # "idle" /\ Presented(r) # None /\ req[r].matched # {}

\* C19: two requests in flight with different valid tokens: the find of each
\* answers the row of its own token (or a store error, never NotFound), and
\* each one that got its row enters its handler with the subject of its own
\* token and changes no row of the token of the other by its store calls.
DistinctTokens ==
    \A r1, r2 \in Reqs :
        r1 # r2 /\ PresentedValid(r1) /\ PresentedValid(r2) /\ Presented(r1) # Presented(r2) =>
            /\ req[r1].pc = "find_done" =>
                  \A res \in req[r1].res : res.ok \/ res.err \in StoreErrors \cup {"Mailbox"}
            /\ \A row \in req[r1].loaded : Some(row.token) = Presented(r1)
            /\ req[r1].loaded # None =>
                  \A first \in req[r1].entry :
                      CurrentSubject(first) = Some(SubjectOf(Unwrap(Presented(r1))))
            /\ req[r1].loaded # None => req[r1].touched \cap Presented(r2) = {}

\* both have written: one has changed its row, the other has removed its own
DistinctTokensWitness ==
    \E r1, r2 \in Reqs :
        /\ r1 # r2 /\ PresentedValid(r1) /\ PresentedValid(r2) /\ Presented(r1) # Presented(r2)
        /\ req[r1].loaded # None /\ req[r2].loaded # None
        /\ req[r1].pc = "done" /\ req[r2].pc = "done"
        /\ req[r1].touched = Presented(r1)
        /\ req[r2].touched = Presented(r2)
        /\ WriteOp(r1) = {"update"} /\ WriteOp(r2) = {"delete"}

\* A logout without a token: no Authorization header, the handler calls
\* forget() and nothing else, and write has run
TokenlessLogout(r) ==
    /\ Written(r)
    /\ req[r].shape = "absent"
    /\ \E first \in req[r].entry : IsEmpty(first)
    /\ req[r].calls = 1
    /\ req[r].last = "forget"

UnchangedAtEntry ==
    \A r \in Reqs :
        /\ AtEntry(r) => Self(r).state = "Unchanged"
        /\ req[r].wr # None /\ req[r].calls = 0 => Mutations(r) = {}

\* C22: an Identity in state Changed has a token and a subject, after
\* extraction and after any handler calls; write never answers 400 from
\* state Changed.
ChangedHasTokenAndSubject ==
    \A r \in Reqs :
        /\ \A self \in req[r].ident :
              self.state = "Changed" => self.token # None /\ self.identity # None
        /\ \A self \in req[r].wr :
              self.state = "Changed" =>
                  /\ WriteBranch(self) = "save"
                  /\ req[r].out # Some(ErrorResponse(StatusBadRequest))

ChangedHasTokenAndSubjectWitness ==
    \E r \in Reqs :
        /\ Written(r)
        /\ Unwrap(req[r].wr).state = "Changed"
        /\ \E first \in req[r].entry : IsEmpty(first)
        /\ req[r].calls = MaxCalls
        /\ req[r].last = "remember"

\* r is in its handler (or write has run) with a Deleted Identity that has
\* a token
DeletedWithToken(r, self) == self.state = "Deleted" /\ self.token # None

\* C23 as stated: the token of a Deleted Identity is the token of the row
\* found at extraction, whatever the handler has called; write sends a delete
\* only for such a token.
DeleteTargetsLoaded ==
    \A r \in Reqs :
        /\ \A self \in req[r].ident :
              DeletedWithToken(r, self) => \E row \in req[r].loaded : self.token = Some(row.token)
        /\ WriteOp(r) = {"delete"} =>
              \E row \in req[r].loaded : Unwrap(req[r].wr).token = Some(row.token)

\* C23 amended: the same for a request whose handler has not called
\* remember.
DeleteTargetsLoadedUnlessRemembered ==
    \A r \in Reqs :
        ~req[r].remembered =>
            /\ \A self \in req[r].ident :
                  DeletedWithToken(r, self) =>
                      \E row \in req[r].loaded : self.token = Some(row.token)
            /\ WriteOp(r) = {"delete"} =>
                  \E row \in req[r].loaded : Unwrap(req[r].wr).token = Some(row.token)

DeleteTargetsLoadedWitness ==
    \E r \in Reqs :
        /\ ~req[r].remembered
        /\ req[r].pc = "delete_sent"
        /\ \E row \in req[r].loaded : Unwrap(req[r].msg).token = row.token

\* The find calls r has sent
Finds(r) == {i \in 1..Len(req[r].ops) : req[r].ops[i] = "find"}

\* C24: a request sends at most one find and at most one update or delete,
\* the latter from write only, and has at most one store call outstanding:
\* the last one it sent.
AtMostOneMutation ==
    \A r \in Reqs :
        /\ Cardinality(Finds(r)) <= 1
        /\ Cardinality(Mutations(r)) <= 1
        /\ Mutations(r) # {} => req[r].wr # None
        /\ Cardinality(req[r].msg) <= 1
        /\ \A msg \in req[r].msg :
              /\ msg.op = req[r].ops[Len(req[r].ops)]
              /\ req[r].pc = (IF msg.op = "find" THEN "find_sent"
                              ELSE IF msg.op = "update" THEN "update_sent" ELSE "delete_sent")
        /\ req[r].pc \in {"find_sent", "update_sent", "delete_sent"} <=> req[r].msg # None

AtMostOneMutationWitness ==
    \E r1, r2 \in Reqs :
        /\ req[r1].pc = "done" /\ req[r1].ops = <<"find", "update">>
        /\ req[r2].pc = "delete_sent" /\ req[r2].ops = <<"find", "delete">>

\* C25: within a request the find has been answered before the handler
\* runs, the handler has made its last call before write decides, and an
\* update or delete is sent only after extraction has ended: find is the
\* first call of a request, an update or delete its last one.
PhaseOrder ==
    \A r \in Reqs :
        /\ Finds(r) \subseteq {1}
        /\ Mutations(r) \subseteq {Len(req[r].ops)} \ Finds(r)
        /\ req[r].entry = None =>
              /\ req[r].calls = 0 /\ req[r].wr = None /\ Mutations(r) = {}
              /\ req[r].pc \in {"idle", "find_sent", "find_done", "done"}
        /\ req[r].pc = "handler" =>
              /\ req[r].msg = None /\ req[r].wr = None /\ Mutations(r) = {}
              /\ Finds(r) # {} => req[r].res # None
        /\ \A self \in req[r].wr :
              /\ req[r].pc \in {"update_sent", "update_done", "delete_sent", "delete_done", "done"}
              /\ req[r].ident \subseteq {self, [self EXCEPT !.state = "Unchanged"]}

PhaseOrderWitness ==
    \E r1, r2 \in Reqs :
        /\ req[r1].pc = "handler" /\ Finds(r1) = {1} /\ req[r1].calls = MaxCalls
        /\ req[r2].pc = "update_done" /\ req[r2].ops = <<"find", "update">>
        /\ req[r2].calls > 0

\* The row of the id of msg once the update msg has run on the store
Updated(msg) == {new \in UpdateRows(store, msg) : new.id = msg.id}

\* An update assigns the ip, user agent (when the Identity has one) and
\* modified of the Identity to the addressed row and keeps its token and
\* created.
UpdateSetsMetadata ==
    \A r \in Reqs :
        req[r].pc = "update_sent" =>
            \A msg \in req[r].msg : \A row \in store :
                row.id = msg.id =>
                    \E new \in Updated(msg) :
                        /\ Self(r).ip # None => new.ip = Self(r).ip
                        /\ Self(r).user_agent # None => new.useragent = Self(r).user_agent
                        /\ new.modified = msg.modified
                        /\ new.token = row.token
                        /\ new.created = row.created

\* An update assigns the subject of the Identity to the addressed row.
UpdateSetsSubject ==
    \A r \in Reqs :
        req[r].pc = "update_sent" =>
            \A msg \in req[r].msg : \A new \in Updated(msg) :
                Some(new.userid) = CurrentSubject(Self(r))

\* C26: the update sets subject, ip, user agent and modified of the row of
\* its key to the values of the Identity and keeps token and created.
UpdateSetsFields == UpdateSetsMetadata /\ UpdateSetsSubject

Suspended(r) == req[r].msg # None

\* The step r is waiting to take can be taken now
CanStep(r) ==
    CASE req[r].pc = "find_sent" -> ENABLED HandleFind(r)
      [] req[r].pc = "update_sent" -> ENABLED HandleUpdate(r)
      [] req[r].pc = "delete_sent" -> ENABLED HandleDelete(r)
      [] req[r].pc = "find_done" -> ENABLED LoadDone(r)
      [] req[r].pc = "update_done" -> ENABLED SaveDone(r)
      [] req[r].pc = "delete_done" -> ENABLED RemoveDone(r)
      [] req[r].pc = "handler" -> ENABLED (\E status \in env.statuses : Write(r, status))
      [] req[r].pc = "done" -> ENABLED Finish(r)
      [] OTHER -> TRUE

NoBlock ==
    \A r1, r2 \in Reqs : r1 # r2 /\ Suspended(r1) => CanStep(r2)

\* C28: while a request waits for the store every other request can take its
\* step; every store call sent is answered, and every request whose write
\* has run gets its outcome.
NonBlocking ==
    /\ []NoBlock
    /\ \A r \in Reqs :
          /\ Suspended(r) ~> ~Suspended(r)
          /\ (req[r].wr # None) ~> (req[r].out # None)

\* both requests wait for the store at once, one of them for its write
NonBlockingWitness ==
    \E r1, r2 \in Reqs :
        /\ r1 # r2
        /\ req[r1].pc = "update_sent"
        /\ req[r2].pc = "find_sent"

\* The position of the first space of a text with one
FirstSpace(s) == CHOOSE i \in 1..Len(s) : s[i] = " " /\ \A j \in 1..(i - 1) : s[j] # " "

\* What stands between the first space of a header text and its next space
\* (or its end)
TokenField(h) ==
    LET rest == SubSeq(h, FirstSpace(h) + 1, Len(h))
    IN  IF \E i \in 1..Len(rest) : rest[i] = " "
        THEN SubSeq(rest, 1, FirstSpace(rest) - 1)
        ELSE rest

\* C29: the token looked up for a header text is its second field, whatever
\* stands before the first space and after the second one; the find and the
\* Identity of the request are those of that token.
SchemeIgnored ==
    \A r \in Reqs :
        req[r].pc # "idle" /\ req[r].shape = "fields" =>
            \A h \in req[r].hdr :
                /\ Presented(r) = Some(TokenField(h))
                /\ \A msg \in req[r].msg : msg.op = "find" => msg.token = TokenField(h)
                /\ \A row \in req[r].loaded : row.token = TokenField(h)
                /\ AtEntry(r) =>
                      \E now \in 0..MaxClock :
                          Self(r) = FromRequest(req[r].loaded, req[r].ip, req[r].ua, now)

\* an empty scheme and a field after the token
SchemeIgnoredWitness ==
    \E r \in Reqs :
        /\ AtEntry(r)
        /\ req[r].hdr = Some(<<" ", "a", " ", "a">>)
        /\ req[r].loaded # None
        /\ CurrentSubject(Self(r)) # None

\* C30: once the delete for a token has ended, the token stays without a
\* row, also after the update of a request that had loaded it before the
\* delete.
RevocationDurable ==
    \A r \in Reqs :
        \A row \in req[r].loaded :
            row.token \in deleted =>
                /\ FindIdentity(store, FindMsg(row.token)) = {Err("NotFound")}
                /\ \A other \in store : other.id # row.id

\* the update of a request that had loaded the token was answered after the
\* delete
RevocationDurableWitness ==
    \E r \in Reqs :
        /\ req[r].pc \in {"update_done", "done"}
        /\ WriteOp(r) = {"update"}
        /\ req[r].res = Some(Ok(0))
        /\ \E row \in req[r].loaded : row.token \in deleted

\* C31 as stated: the delete a write sends for a request that resolved a
\* token carries that token, whatever the handler called before.
DeleteSendsResolvedToken ==
    \A r \in Reqs :
        req[r].pc = "delete_sent" =>
            \A row \in req[r].loaded : \A msg \in req[r].msg : msg.token = row.token

\* C31 amended: it carries the token the Identity holds: the resolved one
\* when the handler has not called remember, the one the last remember
\* generated otherwise.
DeleteSendsCurrentToken ==
    \A r \in Reqs :
        req[r].pc = "delete_sent" =>
            \A row \in req[r].loaded : \A msg \in req[r].msg :
                /\ Some(msg.token) = Unwrap(req[r].wr).token
                /\ msg.token = IF req[r].remembered
                               THEN req[r].gen[Len(req[r].gen)][1]
                               ELSE row.token

DeleteSendsCurrentTokenWitness ==
    \E r \in Reqs :
        /\ req[r].pc = "delete_sent"
        /\ req[r].loaded # None
        /\ req[r].remembered
        /\ \E row \in req[r].loaded : Unwrap(req[r].msg).token # row.token

\* C32: a find changes no row, a delete changes no row of another token and
\* an update no row of another id; neither adds a row.
StoreFrame ==
    [][\A r \in Reqs :
          /\ HandleFind(r) => store' = store
          /\ HandleDelete(r) =>
                \A msg \in req[r].msg :
                    /\ \A row \in store : row.token # msg.token => row \in store'
                    /\ store' \subseteq store
          /\ HandleUpdate(r) =>
                \A msg \in req[r].msg :
                    /\ \A row \in store : row.id # msg.id => row \in store'
                    /\ \A row \in store' : row.id # msg.id => row \in store
                    /\ {row.id : row \in store'} = {row.id : row \in store}]_vars

\* one request has removed its row by a delete, the other has changed its
\* row by an update, and no other row differs from the seeded one
StoreFrameWitness ==
    \E r1, r2 \in Reqs :
        /\ r1 # r2
        /\ req[r1].pc = "done" /\ WriteOp(r1) = {"delete"} /\ req[r1].touched # {}
        /\ req[r2].pc = "done" /\ WriteOp(r2) = {"update"} /\ req[r2].touched # {}
        /\ Cardinality(store) = Cardinality(SeedRows) - 1
        /\ \A row \in store : row \in SeedRows \/ row.token \in req[r2].touched
        /\ store \cap SeedRows = {}

====
